---- MODULE Spec2Model ----
(***************************************************************************)
(* State-machine model of the sketch-dream client.                         *)
(*                                                                         *)
(*   DrawingCanvas   src/src/components/features/canvas/DrawingCanvas.tsx  *)
(*                   lines 36-314: the undo/redo history of the canvas     *)
(*   TextPromptInput same file, lines 336-475: prompt, draft, recency list *)
(*   ControlParameters same file, lines 498-637: the generation parameters *)
(*   App             src/unnamed/part_000: handleGenerate and its buttons  *)
(*   generateImage   src/src/lib/generation-service.ts: the request URL    *)
(*   ResultDisplay   src/src/components/features/results/ResultDisplay.tsx *)
(*                   the three views, the star rating and its reset effect *)
(*                                                                         *)
(* Every React event handler runs to completion and the component is       *)
(* re-rendered before the next event is delivered, so a handler's closure  *)
(* reads the committed state.  The only suspension point of the canvas     *)
(* component is the `await fabricCanvas.loadFromJSON(...)` of undo/redo:    *)
(* the part of undo/redo before the await is one action, the completion    *)
(* (or rejection) of the awaited promise is another.  handleGenerate of    *)
(* App is split in the same way at its `await generateImage(...)`.         *)
(*                                                                         *)
(* Texts are sequences of one-character strings, so that trimming,         *)
(* percent-encoding and the parsing of a URL are computed on characters.   *)
(***************************************************************************)
EXTENDS Integers, Sequences, FiniteSets, TLC

\* ---------------------------------------------------------------- bounds
\* number of strokes the user draws (each stroke gives a new canvas content)
MaxStrokes == 1
\* number of loadFromJSON promises that may be outstanding at once
MaxPending == 2
\* length of the short texts typed into the prompt
MaxShort == 0
\* how far beyond maxLength the long texts typed into the prompt go
MaxOver == 1
\* number of addToHistory calls made on a given recency list
MaxCommits == 2
\* length of the longest whitespace-only text given to addToHistory
MaxBlank == 2
\* length of the longest prompt given to generateImage
MaxPromptLen == 1
\* number of promises of generateImage that may be outstanding at once
MaxCalls == 2

\* ------------------------------------------------------ program constants
\* "Limit history to 10 items"
HistoryLimit == 10
\* Math.min(prev + 1, 9)
MaxIndex == 9

\* TextPromptInput: maxLength = 500
maxLength == 500
\* history.slice(0, 5): the recent prompts shown as buttons
RecentShown == 5
\* [...].slice(0, 10): the recent prompts kept
RecentLimit == 10

\* JSON of the canvas with no objects and a white background
Blank == 0
\* the value of an array read outside its bounds
Undefined == -1

VARIABLES
    fabricCanvas,         \* TRUE once the fabric.Canvas exists (state is non-null)
    history,              \* useState<string[]>: the snapshots
    historyIndex,         \* useState(-1): the cursor
    isHistoryProcessing,  \* useRef(false): the guard read by saveHistory
    canvas,               \* what the fabric canvas currently shows (its JSON)
    pending,              \* snapshots handed to loadFromJSON calls not yet settled
    strokes,              \* number of strokes drawn so far
    last,                 \* the handler that ran last, with the cursor and length it found
    episode               \* progress of an undo directly followed by a redo

canvasVars == <<fabricCanvas, history, historyIndex, isHistoryProcessing,
                canvas, pending, strokes, last, episode>>

VARIABLES
    prompt,               \* TextPromptInput: useState('') the text of the textarea
    promptHistory,        \* TextPromptInput: useState<string[]>([]) the recent prompts
    saveTimeout,          \* TextPromptInput: useRef(null), handle of the last timer (0: null)
    timers,               \* the setTimeout callbacks that have not run yet
    lsDraft,              \* localStorage 'prompt_draft': << >> or <<text>>
    lsHistory,            \* localStorage 'prompt_history': << >> or <<string>>
    promptLoaded,         \* TRUE once the load effect of TextPromptInput has run
    appPrompt,            \* App: useState('') the prompt reported by onPromptChange
    lastPrompt,           \* the TextPromptInput handler that ran last, its argument and
                          \* the timers that were pending when it ran
    sinceClear            \* TRUE from handleClear until the next accepted change

promptVars == <<prompt, promptHistory, saveTimeout, timers, lsDraft, lsHistory,
                promptLoaded, appPrompt, lastPrompt, sinceClear>>

VARIABLES
    commits               \* number of addToHistory calls made on arbitrary texts

commitVars == <<commits>>

VARIABLES
    firstCall,            \* a call of generateImage: its arguments and what it returned
    secondCall            \* a later call with the same prompt and style

serviceVars == <<firstCall, secondCall>>

VARIABLES
    params,               \* ControlParameters: useState({...DEFAULT_PARAMS, ...initialParams})
    paramsEffect,         \* TRUE while the effect that calls onParamsChange has yet to run
    lastPanel             \* the ControlParameters handler that ran last and its arguments

panelVars == <<params, paramsEffect, lastPanel>>

VARIABLES
    appParams,            \* App: useState<GenerationParams>({...})
    isGenerating,         \* App: useState(false)
    resultImage,          \* App: useState<string | null>(null): << >> or <<url>>
    lastSketch,           \* App: useState<string | null>(null): << >> or <<data url>>
    calls,                \* the promises of generateImage that handleGenerate awaits
    lastApp,              \* the step of handleGenerate that ran last, the trigger used
                          \* and what the result viewer showed before it
    priorPane             \* while a generation attempt is in progress: the image and
                          \* the sketch the result viewer was given when it started

appVars == <<appParams, isGenerating, resultImage, lastSketch, calls, lastApp, priorPane>>

VARIABLES
    rating,               \* ResultDisplay: useState(0)
    imageEffect           \* TRUE while the effect that depends on generatedImage has
                          \* yet to run

viewerVars == <<rating, imageEffect>>

vars == <<canvasVars, promptVars, commitVars, serviceVars, panelVars, appVars, viewerVars>>

\* what the handlers of DrawingCanvas do not touch
notCanvasVars == <<promptVars, commitVars, serviceVars, panelVars, appVars, viewerVars>>
\* what the handlers of TextPromptInput do not touch
notPromptVars == <<canvasVars, commitVars, serviceVars, panelVars, appVars, viewerVars>>
\* what the handlers of ControlParameters do not touch
notPanelVars == <<canvasVars, promptVars, commitVars, serviceVars,
                  isGenerating, resultImage, lastSketch, calls, lastApp, priorPane,
                  viewerVars>>
\* what handleGenerate does not touch
notGenerateVars == <<canvasVars, promptVars, commitVars, serviceVars, panelVars, appParams>>
\* what a call of generateImage does not touch
notServiceVars == <<canvasVars, promptVars, commitVars, panelVars, appVars, viewerVars>>
\* what the handlers of ResultDisplay do not touch
notViewerVars == <<canvasVars, promptVars, commitVars, serviceVars, panelVars, appVars>>

Min(a, b) == IF a <= b THEN a ELSE b
Max(a, b) == IF a >= b THEN a ELSE b

\* Array.prototype.slice(0, end)
SliceTo(s, end) ==
    LET e == IF end < 0 THEN Max(Len(s) + end, 0) ELSE Min(end, Len(s))
    IN  SubSeq(s, 1, e)

\* array[i] of JavaScript (0-based; undefined outside the array)
At(s, i) == IF i >= 0 /\ i < Len(s) THEN s[i + 1] ELSE Undefined

\* s without its element at position i (1-based)
RemoveAt(s, i) == SubSeq(s, 1, i - 1) \o SubSeq(s, i + 1, Len(s))

\* ------------------------------------------------------------ saveHistory
\* variant: the 10-item limit is not enforced
saveHistoryEntries_NoShift(prev, idx, json) ==
    Append(SliceTo(prev, idx + 1), json)

\* variant: the entries after the cursor are not discarded
saveHistoryEntries_NoTruncate(prev, idx, json) ==
    LET shifted == IF Len(prev) >= HistoryLimit THEN Tail(prev) ELSE prev
    IN  Append(shifted, json)

\* variant: pop() instead of shift(), the newest entry is dropped at the limit
saveHistoryEntries_DropNewest(prev, idx, json) ==
    LET newHistory == SliceTo(prev, idx + 1)
        popped     == IF Len(newHistory) >= HistoryLimit
                      THEN SubSeq(newHistory, 1, Len(newHistory) - 1) ELSE newHistory
    IN  Append(popped, json)

\* variant: slice(0, historyIndex), the entry at the cursor is discarded too
saveHistoryEntries_SliceOffByOne(prev, idx, json) ==
    LET newHistory == SliceTo(prev, idx)
        shifted    == IF Len(newHistory) >= HistoryLimit
                      THEN Tail(newHistory) ELSE newHistory
    IN  Append(shifted, json)

\* the updater passed to setHistory; idx is the historyIndex of the closure
saveHistoryEntries(prev, idx, json) ==
    LET newHistory == SliceTo(prev, idx + 1)
        shifted    == IF Len(newHistory) >= HistoryLimit
                      THEN Tail(newHistory) ELSE newHistory
    IN  Append(shifted, json)

\* variant: the cursor is not capped
saveHistoryIndex_NoCap(prev) == prev + 1

\* the updater passed to setHistoryIndex
saveHistoryIndex(prev) == Min(prev + 1, MaxIndex)

\* the guard of saveHistory: TRUE when the call returns without saving
saveHistorySkips == ~fabricCanvas \/ isHistoryProcessing

\* saveHistory called when the canvas holds json
saveHistory(json) ==
    IF saveHistorySkips
    THEN UNCHANGED <<history, historyIndex>>
    ELSE /\ history' = saveHistoryEntries(history, historyIndex, json)
         /\ historyIndex' = saveHistoryIndex(historyIndex)

Stamp(op, acted) ==
    [op |-> op, acted |-> acted, idx |-> historyIndex, len |-> Len(history)]

\* An episode is: undo with nothing in flight and the guard clear (stage 1),
\* its restore completes (2), redo (3), its restore completes (4).
NoEpisode == [stage |-> 0, idx |-> -1, hist |-> << >>, shown |-> Blank]

EpisodeStep(op, acted) ==
    IF op = "undo" /\ acted /\ pending = << >> /\ ~isHistoryProcessing
    THEN [stage |-> 1, idx |-> historyIndex, hist |-> history, shown |-> canvas]
    ELSE IF op = "restored" /\ episode.stage \in {1, 3}
    THEN [episode EXCEPT !.stage = @ + 1]
    ELSE IF op = "redo" /\ acted /\ episode.stage = 2
    THEN [episode EXCEPT !.stage = 3]
    ELSE NoEpisode

\* ------------------------------------------------------------- operations
CanvasInit ==
    /\ fabricCanvas = FALSE
    /\ history = << >>
    /\ historyIndex = -1
    /\ isHistoryProcessing = FALSE
    /\ canvas = Blank
    /\ pending = << >>
    /\ strokes = 0
    /\ last = [op |-> "none", acted |-> FALSE, idx |-> -1, len |-> 0]
    /\ episode = NoEpisode

CommitIdle == commits = 0

\* no call of generateImage made
NoCall == [made |-> FALSE]

ServiceIdle ==
    /\ firstCall = NoCall
    /\ secondCall = NoCall

\* const DEFAULT_PARAMS
DEFAULT_PARAMS == [sketchStrength |-> 70, style |-> "photorealistic", variations |-> 1]

PanelIdle ==
    /\ params = DEFAULT_PARAMS
    /\ paramsEffect = TRUE
    /\ lastPanel = [op |-> "none", key |-> "", number |-> 0, name |-> ""]

\* the result viewer: "empty", "generating" or "displaying"
viewOf(generating, image) ==
    IF generating THEN "generating"
    ELSE IF image = << >> THEN "empty"
    ELSE "displaying"

\* no generation attempt in progress
NoPane == [image |-> << >>, sketch |-> << >>]

AppIdle ==
    /\ appParams = [sketchStrength |-> 70, style |-> "photorealistic", variations |-> 1]
    /\ isGenerating = FALSE
    /\ resultImage = << >>
    /\ lastSketch = << >>
    /\ calls = << >>
    /\ lastApp = [op |-> "none", by |-> "", view |-> "empty"]
    /\ priorPane = NoPane

\* ResultDisplay after its first render and the effects of that render: the
\* effect that depends on generatedImage ran with generatedImage null
ViewerIdle ==
    /\ rating = 0
    /\ imageEffect = FALSE

\* everything outside DrawingCanvas and TextPromptInput before its first step
RestIdle == CommitIdle /\ ServiceIdle /\ PanelIdle /\ AppIdle /\ ViewerIdle

PromptIdle ==
    /\ prompt = << >>
    /\ promptHistory = << >>
    /\ saveTimeout = 0
    /\ timers = {}
    /\ promptLoaded = FALSE
    /\ appPrompt = << >>
    /\ lastPrompt = [op |-> "none", value |-> << >>, was |-> {}]
    /\ sinceClear = FALSE

\* the page is opened with nothing in localStorage
Init ==
    /\ CanvasInit
    /\ PromptIdle
    /\ RestIdle
    /\ lsDraft = << >>
    /\ lsHistory = << >>

\* the mount effect: creates the canvas and stores the blank snapshot
InitCanvas ==
    /\ ~fabricCanvas
    /\ fabricCanvas' = TRUE
    /\ canvas' = Blank
    /\ history' = <<canvas'>>
    /\ historyIndex' = 0
    /\ last' = Stamp("init", TRUE)
    /\ episode' = EpisodeStep("init", TRUE)
    /\ UNCHANGED <<isHistoryProcessing, pending, strokes>>
    /\ UNCHANGED notCanvasVars

\* a stroke is completed: fabric adds the path and fires path:created
handlePathCreated ==
    /\ fabricCanvas
    /\ strokes < MaxStrokes
    /\ strokes' = strokes + 1
    /\ canvas' = strokes'
    /\ saveHistory(canvas')
    /\ last' = Stamp("stroke", ~saveHistorySkips)
    /\ episode' = EpisodeStep("stroke", ~saveHistorySkips)
    /\ UNCHANGED <<fabricCanvas, isHistoryProcessing, pending>>
    /\ UNCHANGED notCanvasVars

clearCanvas ==
    /\ fabricCanvas
    /\ canvas' = Blank
    /\ saveHistory(canvas')
    /\ last' = Stamp("clear", ~saveHistorySkips)
    /\ episode' = EpisodeStep("clear", ~saveHistorySkips)
    /\ UNCHANGED <<fabricCanvas, isHistoryProcessing, pending, strokes>>
    /\ UNCHANGED notCanvasVars

\* the index undo moves to
undoIndex(idx) == idx - 1

\* variant: the cursor is not advanced
redoIndex_Stay(idx) == idx

\* variant: the cursor is advanced by two
redoIndex_Skip(idx) == idx + 2

\* the index redo moves to
redoIndex(idx) == idx + 1

\* undo up to the await
undo ==
    /\ UNCHANGED notCanvasVars
    /\ IF ~fabricCanvas \/ historyIndex <= 0
       THEN /\ last' = Stamp("undo", FALSE)
            /\ episode' = EpisodeStep("undo", FALSE)
            /\ UNCHANGED <<fabricCanvas, history, historyIndex, isHistoryProcessing,
                           canvas, pending, strokes>>
       ELSE /\ Len(pending) < MaxPending
            /\ isHistoryProcessing' = TRUE
            /\ historyIndex' = undoIndex(historyIndex)
            /\ pending' = Append(pending, At(history, historyIndex'))
            /\ last' = Stamp("undo", TRUE)
            /\ episode' = EpisodeStep("undo", TRUE)
            /\ UNCHANGED <<fabricCanvas, history, canvas, strokes>>

\* redo up to the await
redo ==
    /\ UNCHANGED notCanvasVars
    /\ IF ~fabricCanvas \/ historyIndex >= Len(history) - 1
       THEN /\ last' = Stamp("redo", FALSE)
            /\ episode' = EpisodeStep("redo", FALSE)
            /\ UNCHANGED <<fabricCanvas, history, historyIndex, isHistoryProcessing,
                           canvas, pending, strokes>>
       ELSE /\ Len(pending) < MaxPending
            /\ isHistoryProcessing' = TRUE
            /\ historyIndex' = redoIndex(historyIndex)
            /\ pending' = Append(pending, At(history, historyIndex'))
            /\ last' = Stamp("redo", TRUE)
            /\ episode' = EpisodeStep("redo", TRUE)
            /\ UNCHANGED <<fabricCanvas, history, canvas, strokes>>

\* the i-th outstanding loadFromJSON promise resolves: the canvas holds the
\* snapshot, and undo/redo resume after the await
restoreDoneAt(i) ==
    /\ i \in 1..Len(pending)
    /\ pending[i] # Undefined
    /\ canvas' = pending[i]
    /\ pending' = RemoveAt(pending, i)
    /\ isHistoryProcessing' = FALSE
    /\ last' = Stamp("restored", TRUE)
    /\ episode' = EpisodeStep("restored", TRUE)
    /\ UNCHANGED <<fabricCanvas, history, historyIndex, strokes>>
    /\ UNCHANGED notCanvasVars

\* any outstanding restore completes
restoreDone == \E i \in 1..Len(pending) : restoreDoneAt(i)

\* the restore started first completes
restoreFirstDone == restoreDoneAt(1)

\* JSON.parse throws or the loadFromJSON promise rejects: undo/redo end there
restoreFailed ==
    \E i \in 1..Len(pending) :
        /\ pending' = RemoveAt(pending, i)
        /\ last' = Stamp("failed", TRUE)
        /\ episode' = EpisodeStep("failed", TRUE)
        /\ UNCHANGED <<fabricCanvas, history, historyIndex, isHistoryProcessing,
                       canvas, strokes>>
        /\ UNCHANGED notCanvasVars

Next ==
    \/ InitCanvas
    \/ handlePathCreated
    \/ clearCanvas
    \/ undo
    \/ redo
    \/ restoreDone
    \/ restoreFailed

Spec == Init /\ [][Next]_vars

\* the behaviours in which no loadFromJSON promise rejects and the promises
\* resolve in the order of the calls
InOrderNext ==
    \/ InitCanvas
    \/ handlePathCreated
    \/ clearCanvas
    \/ undo
    \/ redo
    \/ restoreFirstDone

InOrderSpec == Init /\ [][InOrderNext]_vars

\* ====================================================================
\* TextPromptInput: prompt, debounced draft, recent prompts
\* ====================================================================

\* TEMPLATES[0].text ("Portrait")
TemplatePortrait == <<
    "P", "o", "r", "t", "r", "a", "i", "t", " ", "o", "f", " ", "a", " ", "c", "y",
    "b", "e", "r", "p", "u", "n", "k", " ", "c", "h", "a", "r", "a", "c", "t", "e",
    "r", " ", "w", "i", "t", "h", " ", "n", "e", "o", "n", " ", "l", "i", "g", "h",
    "t", "s", ",", " ", "d", "e", "t", "a", "i", "l", "e", "d", " ", "f", "a", "c",
    "i", "a", "l", " ", "f", "e", "a", "t", "u", "r", "e", "s", ",", " ", "f", "u",
    "t", "u", "r", "i", "s", "t", "i", "c", " ", "c", "i", "t", "y", " ", "b", "a",
    "c", "k", "g", "r", "o", "u", "n", "d" >>

\* TEMPLATES[1].text ("Landscape")
TemplateLandscape == <<
    "A", " ", "m", "a", "j", "e", "s", "t", "i", "c", " ", "m", "o", "u", "n", "t",
    "a", "i", "n", " ", "l", "a", "n", "d", "s", "c", "a", "p", "e", " ", "a", "t",
    " ", "s", "u", "n", "s", "e", "t", ",", " ", "p", "h", "o", "t", "o", "r", "e",
    "a", "l", "i", "s", "t", "i", "c", ",", " ", "8", "k", " ", "r", "e", "s", "o",
    "l", "u", "t", "i", "o", "n", ",", " ", "d", "r", "a", "m", "a", "t", "i", "c",
    " ", "l", "i", "g", "h", "t", "i", "n", "g" >>

\* TEMPLATES[2].text ("Product")
TemplateProduct == <<
    "P", "r", "o", "f", "e", "s", "s", "i", "o", "n", "a", "l", " ", "p", "r", "o",
    "d", "u", "c", "t", " ", "p", "h", "o", "t", "o", "g", "r", "a", "p", "h", "y",
    " ", "o", "f", " ", "a", " ", "s", "m", "a", "r", "t", "w", "a", "t", "c", "h",
    ",", " ", "s", "l", "e", "e", "k", " ", "d", "e", "s", "i", "g", "n", ",", " ",
    "s", "t", "u", "d", "i", "o", " ", "l", "i", "g", "h", "t", "i", "n", "g", ",",
    " ", "n", "e", "u", "t", "r", "a", "l", " ", "b", "a", "c", "k", "g", "r", "o",
    "u", "n", "d" >>

\* TEMPLATES[3].text ("Abstract")
TemplateAbstract == <<
    "A", "b", "s", "t", "r", "a", "c", "t", " ", "d", "i", "g", "i", "t", "a", "l",
    " ", "a", "r", "t", " ", "w", "i", "t", "h", " ", "f", "l", "o", "w", "i", "n",
    "g", " ", "g", "e", "o", "m", "e", "t", "r", "i", "c", " ", "s", "h", "a", "p",
    "e", "s", ",", " ", "v", "i", "b", "r", "a", "n", "t", " ", "c", "o", "l", "o",
    "r", "s", ",", " ", "i", "n", "t", "r", "i", "c", "a", "t", "e", " ", "p", "a",
    "t", "t", "e", "r", "n", "s" >>

TEMPLATES == <<TemplatePortrait, TemplateLandscape, TemplateProduct, TemplateAbstract>>

\* the characters typed in the model
Alphabet == {"a", " "}
\* the characters String.prototype.trim removes
Whitespace == {" "}

\* the text of n characters "a"
Fill(n) == [i \in 1..n |-> "a"]

\* the values a change event of the textarea may carry
TypedTexts ==
    UNION {[1..n -> Alphabet] : n \in 0..MaxShort}
    \cup {Fill(n) : n \in (maxLength - 1)..(maxLength + MaxOver)}

\* String.prototype.trim
RECURSIVE TrimStart(_)
TrimStart(text) ==
    IF text # << >> /\ Head(text) \in Whitespace THEN TrimStart(Tail(text)) ELSE text

RECURSIVE TrimEnd(_)
TrimEnd(text) ==
    IF text # << >> /\ text[Len(text)] \in Whitespace
    THEN TrimEnd(SubSeq(text, 1, Len(text) - 1)) ELSE text

Trim(text) == TrimEnd(TrimStart(text))

\* Array.prototype.filter(h => h !== text)
RECURSIVE FilterOut(_, _)
FilterOut(list, text) ==
    IF list = << >> THEN << >>
    ELSE IF Head(list) = text THEN FilterOut(Tail(list), text)
    ELSE <<Head(list)>> \o FilterOut(Tail(list), text)

\* a string in localStorage: the JSON text of val, or text that is not JSON
JSONstringify(val) == [ok |-> TRUE, val |-> val]
NotJSON == [ok |-> FALSE, val |-> << >>]

\* variant: no limit on the length
fitsMaxLength_NoLimit(value) == TRUE

\* variant: one character more than maxLength is let through
fitsMaxLength_OffByOne(value) == Len(value) <= maxLength + 1

\* value.length <= maxLength
fitsMaxLength(value) == Len(value) <= maxLength

\* variant: the pending timer is not cancelled
clearTimeout_Keep(handle) == timers

\* clearTimeout(handle): the timer with this handle will not run
clearTimeout(handle) == {t \in timers : t.id # handle}

StampPrompt(op, value) == [op |-> op, value |-> value, was |-> timers]

\* a timer handle that is not in use
FreshTimer ==
    LET used == {t.id : t \in timers} \cup {saveTimeout}
    IN  CHOOSE n \in 1..(Cardinality(used) + 1) :
            n \notin used /\ \A m \in 1..(n - 1) : m \in used

\* what was in localStorage when the page is opened
InitialDrafts == {<< >>, <<Fill(1)>>, <<Fill(maxLength)>>}
InitialHistories == {<< >>, <<JSONstringify(<<TemplatePortrait>>)>>}

PromptInit ==
    /\ CanvasInit
    /\ PromptIdle
    /\ RestIdle
    /\ CommitIdle
    /\ lsDraft \in InitialDrafts
    /\ lsHistory \in InitialHistories

\* variant: no try/catch around JSON.parse, its exception ends the effect
parseEscapes_NoCatch(stored) == stored # << >> /\ ~stored[1].ok

\* try { setHistory(JSON.parse(savedHistory)) } catch (e) { console.error(...) }:
\* TRUE when an exception of JSON.parse leaves the effect
parseEscapes(stored) == FALSE

\* the effect "Load history and draft on mount"
loadPrompt ==
    /\ ~promptLoaded
    /\ promptLoaded' = TRUE
    /\ promptHistory' = IF lsHistory # << >> /\ lsHistory[1].ok
                        THEN lsHistory[1].val ELSE promptHistory
    /\ IF ~parseEscapes(lsHistory) /\ lsDraft # << >> /\ lsDraft[1] # << >>
       THEN prompt' = lsDraft[1] /\ appPrompt' = lsDraft[1]
       ELSE UNCHANGED <<prompt, appPrompt>>
    /\ lastPrompt' = StampPrompt("load", << >>)
    /\ UNCHANGED <<saveTimeout, timers, lsDraft, lsHistory, sinceClear>>
    /\ UNCHANGED notPromptVars

\* variant: an earlier occurrence of the text is kept
newHistory_NoDedup(prev, text) == SliceTo(<<text>> \o prev, RecentLimit)

\* [text, ...history.filter(h => h !== text)].slice(0, 10)
newHistory(prev, text) == SliceTo(<<text>> \o FilterOut(prev, text), RecentLimit)

\* addToHistory(text)
addToHistory(text) ==
    IF Trim(text) = << >>
    THEN UNCHANGED <<promptHistory, lsHistory>>
    ELSE /\ promptHistory' = newHistory(promptHistory, text)
         /\ lsHistory' = <<JSONstringify(newHistory(promptHistory, text))>>

\* onChange of the textarea, the event carrying one of the texts
handleChangeTo(texts) ==
    \E value \in texts :
        /\ promptLoaded
        /\ IF fitsMaxLength(value)
           THEN /\ prompt' = value
                /\ appPrompt' = value
                /\ saveTimeout' = FreshTimer
                /\ timers' = clearTimeout(saveTimeout)
                                \cup {[id |-> saveTimeout', value |-> value]}
                /\ sinceClear' = FALSE
           ELSE UNCHANGED <<prompt, appPrompt, saveTimeout, timers, sinceClear>>
        /\ lastPrompt' = StampPrompt("change", value)
        /\ UNCHANGED <<promptHistory, lsDraft, lsHistory, promptLoaded>>
        /\ UNCHANGED notPromptVars

\* onChange of the textarea
handleChange == handleChangeTo(TypedTexts)

\* the callback given to setTimeout runs
saveDraft ==
    \E t \in timers :
        /\ lsDraft' = <<t.value>>
        /\ timers' = timers \ {t}
        /\ lastPrompt' = StampPrompt("save", t.value)
        /\ UNCHANGED <<prompt, promptHistory, saveTimeout, lsHistory, promptLoaded,
                       appPrompt, sinceClear>>
        /\ UNCHANGED notPromptVars

handleClear ==
    /\ promptLoaded
    /\ prompt' = << >>
    /\ appPrompt' = << >>
    /\ lsDraft' = << >>
    /\ lastPrompt' = StampPrompt("clear", << >>)
    /\ sinceClear' = TRUE
    /\ UNCHANGED <<promptHistory, saveTimeout, timers, lsHistory, promptLoaded>>
    /\ UNCHANGED notPromptVars

applyTemplate ==
    \E k \in 1..Len(TEMPLATES) :
        /\ promptLoaded
        /\ prompt' = TEMPLATES[k]
        /\ appPrompt' = TEMPLATES[k]
        /\ addToHistory(TEMPLATES[k])
        /\ lastPrompt' = StampPrompt("template", TEMPLATES[k])
        /\ UNCHANGED <<saveTimeout, timers, lsDraft, promptLoaded, sinceClear>>
        /\ UNCHANGED notPromptVars

\* onClick of one of the recent prompts
pickRecent ==
    \E k \in 1..Len(SliceTo(promptHistory, RecentShown)) :
        /\ promptLoaded
        /\ prompt' = promptHistory[k]
        /\ appPrompt' = promptHistory[k]
        /\ lastPrompt' = StampPrompt("recent", promptHistory[k])
        /\ UNCHANGED <<promptHistory, saveTimeout, timers, lsDraft, lsHistory,
                       promptLoaded, sinceClear>>
        /\ UNCHANGED notPromptVars

PromptNext ==
    \/ loadPrompt
    \/ handleChange
    \/ saveDraft
    \/ handleClear
    \/ applyTemplate
    \/ pickRecent

PromptSpec == PromptInit /\ [][PromptNext]_vars

\* --------------------------------------------------------------------
\* addToHistory as a function of the recency list and of its argument
\* --------------------------------------------------------------------

\* the letters the committed texts are made of
CommitLetters == <<"a", "b", "c", "d", "e", "f", "g", "h", "i", "j", "k">>

\* the list of the first n one-letter texts
Words(n) == [i \in 1..n |-> <<CommitLetters[i]>>]

\* the recency lists addToHistory is called on: empty, one below the limit, full
CommitLists == {Words(n) : n \in {0, RecentLimit - 1, RecentLimit}}

\* the arguments of addToHistory: one-letter texts, empty and whitespace-only
\* texts, and a text that differs from "a" only by a leading space
CommitTexts ==
    {<<CommitLetters[i]>> : i \in 1..Len(CommitLetters)}
    \cup {[i \in 1..n |-> " "] : n \in 0..MaxBlank}
    \cup {<<" ", "a">>}

CommitInit ==
    /\ CanvasInit
    /\ PromptIdle
    /\ RestIdle
    /\ lsDraft = << >>
    /\ lsHistory \in {<<JSONstringify(list)>> : list \in CommitLists}

\* addToHistory(text) called with the committed state in its closure
commit ==
    \E text \in CommitTexts :
        /\ promptLoaded
        /\ commits < MaxCommits
        /\ commits' = commits + 1
        /\ addToHistory(text)
        /\ lastPrompt' = StampPrompt("commit", text)
        /\ UNCHANGED <<prompt, appPrompt, saveTimeout, timers, lsDraft, promptLoaded,
                       sinceClear>>
        /\ UNCHANGED <<canvasVars, serviceVars, panelVars, appVars, viewerVars>>

CommitNext ==
    \/ loadPrompt
    \/ commit

CommitSpec == CommitInit /\ [][CommitNext]_vars

\* ====================================================================
\* generation-service.ts: enhancePrompt and generateImage
\* ====================================================================

\* styleSuffixes['photorealistic']
SuffixPhotorealistic == <<
    ",", " ", "h", "i", "g", "h", "l", "y", " ", "d", "e", "t", "a", "i", "l", "e",
    "d", ",", " ", "p", "h", "o", "t", "o", "r", "e", "a", "l", "i", "s", "t", "i",
    "c", ",", " ", "8", "k", " ", "r", "e", "s", "o", "l", "u", "t", "i", "o", "n",
    ",", " ", "c", "i", "n", "e", "m", "a", "t", "i", "c", " ", "l", "i", "g", "h",
    "t", "i", "n", "g", ",", " ", "p", "h", "o", "t", "o", "g", "r", "a", "p", "h",
    "y" >>

\* styleSuffixes['digital-art']
SuffixDigitalArt == <<
    ",", " ", "d", "i", "g", "i", "t", "a", "l", " ", "a", "r", "t", ",", " ", "t",
    "r", "e", "n", "d", "i", "n", "g", " ", "o", "n", " ", "a", "r", "t", "s", "t",
    "a", "t", "i", "o", "n", ",", " ", "s", "h", "a", "r", "p", " ", "f", "o", "c",
    "u", "s", ",", " ", "v", "i", "b", "r", "a", "n", "t", " ", "c", "o", "l", "o",
    "r", "s" >>

\* styleSuffixes['oil-painting']
SuffixOilPainting == <<
    ",", " ", "o", "i", "l", " ", "p", "a", "i", "n", "t", "i", "n", "g", " ", "t",
    "e", "x", "t", "u", "r", "e", ",", " ", "c", "l", "a", "s", "s", "i", "c", " ",
    "a", "r", "t", " ", "s", "t", "y", "l", "e", ",", " ", "v", "i", "s", "i", "b",
    "l", "e", " ", "b", "r", "u", "s", "h", "s", "t", "r", "o", "k", "e", "s" >>

\* styleSuffixes['anime']
SuffixAnime == <<
    ",", " ", "a", "n", "i", "m", "e", " ", "s", "t", "y", "l", "e", ",", " ", "s",
    "t", "u", "d", "i", "o", " ", "g", "h", "i", "b", "l", "i", ",", " ", "v", "i",
    "b", "r", "a", "n", "t", ",", " ", "c", "e", "l", " ", "s", "h", "a", "d", "e",
    "d", ",", " ", "c", "l", "e", "a", "n", " ", "l", "i", "n", "e", "s" >>

\* styleSuffixes['sketch']
SuffixSketch == <<
    ",", " ", "p", "e", "n", "c", "i", "l", " ", "s", "k", "e", "t", "c", "h", ",",
    " ", "c", "h", "a", "r", "c", "o", "a", "l", " ", "d", "r", "a", "w", "i", "n",
    "g", ",", " ", "r", "o", "u", "g", "h", " ", "l", "i", "n", "e", "s", ",", " ",
    "a", "r", "t", "i", "s", "t", "i", "c" >>

\* styleSuffixes['watercolor']
SuffixWatercolor == <<
    ",", " ", "w", "a", "t", "e", "r", "c", "o", "l", "o", "r", " ", "p", "a", "i",
    "n", "t", "i", "n", "g", ",", " ", "s", "o", "f", "t", " ", "e", "d", "g", "e",
    "s", ",", " ", "p", "a", "s", "t", "e", "l", " ", "c", "o", "l", "o", "r", "s",
    ",", " ", "a", "r", "t", "i", "s", "t", "i", "c", " ", "s", "p", "l", "a", "t",
    "t", "e", "r" >>

\* styleSuffixes['cyberpunk']
SuffixCyberpunk == <<
    ",", " ", "c", "y", "b", "e", "r", "p", "u", "n", "k", ",", " ", "n", "e", "o",
    "n", " ", "l", "i", "g", "h", "t", "s", ",", " ", "f", "u", "t", "u", "r", "i",
    "s", "t", "i", "c", ",", " ", "h", "i", "g", "h", " ", "t", "e", "c", "h", ",",
    " ", "d", "a", "r", "k", " ", "a", "t", "m", "o", "s", "p", "h", "e", "r", "e" >>

\* styleSuffixes['fantasy']
SuffixFantasy == <<
    ",", " ", "h", "i", "g", "h", " ", "f", "a", "n", "t", "a", "s", "y", ",", " ",
    "m", "a", "g", "i", "c", "a", "l", ",", " ", "e", "t", "h", "e", "r", "e", "a",
    "l", ",", " ", "d", "r", "e", "a", "m", "l", "i", "k", "e", ",", " ", "i", "n",
    "t", "r", "i", "c", "a", "t", "e", " ", "d", "e", "t", "a", "i", "l", "s" >>

\* the own properties of the object literal styleSuffixes
styleSuffixes ==
    ("photorealistic" :> SuffixPhotorealistic) @@
    ("digital-art" :> SuffixDigitalArt) @@
    ("oil-painting" :> SuffixOilPainting) @@
    ("anime" :> SuffixAnime) @@
    ("sketch" :> SuffixSketch) @@
    ("watercolor" :> SuffixWatercolor) @@
    ("cyberpunk" :> SuffixCyberpunk) @@
    ("fantasy" :> SuffixFantasy)

\* type StylePreset: the declared style values
StylePreset == {"photorealistic", "digital-art", "oil-painting", "anime",
                "sketch", "watercolor", "cyberpunk", "fantasy"}

\* String(Object.prototype): what the template literal makes of the object
\* that styleSuffixes inherits from
ObjectToString == <<
    "[", "o", "b", "j", "e", "c", "t", " ", "O", "b", "j", "e", "c", "t", "]" >>

\* the properties every object literal inherits from Object.prototype, with
\* the string the template literal makes of their value ("__proto__" is the
\* prototype itself; "constructor", "toString", "valueOf", ... are functions
\* whose string is not empty either)
ObjectPrototype == ("__proto__" :> ObjectToString)

\* styleSuffixes[style] || '': own property, else inherited one, else undefined
suffixOf(style) ==
    IF style \in DOMAIN styleSuffixes THEN styleSuffixes[style]
    ELSE IF style \in DOMAIN ObjectPrototype THEN ObjectPrototype[style]
    ELSE << >>

\* `${prompt}${styleSuffixes[style] || ''}`
enhancePrompt(promptText, style) == promptText \o suffixOf(style)


\* ------------------------------------------------ encodeURIComponent
\* a UTF-16 code unit of the range D800-DBFF that no low surrogate follows
LoneSurrogate == "<D83D>"

\* the characters U+00E9 and U+20AC (two and three bytes in UTF-8)
EAcute == "<E9>"
EuroSign == "<20AC>"

\* characters encodeURIComponent leaves as they are
Unreserved ==
    {"a", "b", "c", "d", "e", "f", "g", "h", "i", "j", "k", "l", "m",
     "n", "o", "p", "q", "r", "s", "t", "u", "v", "w", "x", "y", "z",
     "A", "B", "C", "D", "E", "F", "G", "H", "I", "J", "K", "L", "M",
     "N", "O", "P", "Q", "R", "S", "T", "U", "V", "W", "X", "Y", "Z",
     "0", "1", "2", "3", "4", "5", "6", "7", "8", "9",
     "-", "_", ".", "!", "~", "*", "'", "(", ")"}

\* code points of the other characters that occur in the model
CodePoint ==
    (" " :> 32) @@ ("#" :> 35) @@ ("%" :> 37) @@ ("&" :> 38) @@ ("," :> 44) @@
    ("/" :> 47) @@ ("=" :> 61) @@ ("?" :> 63) @@ ("[" :> 91) @@ ("]" :> 93) @@
    (EAcute :> 233) @@ (EuroSign :> 8364)

HexDigits == <<"0", "1", "2", "3", "4", "5", "6", "7",
               "8", "9", "A", "B", "C", "D", "E", "F">>

\* "%XX" for one byte
PercentByte(byte) == <<"%", HexDigits[(byte \div 16) + 1], HexDigits[(byte % 16) + 1]>>

\* the UTF-8 bytes of a code point below 65536
Utf8(cp) ==
    IF cp < 128 THEN <<cp>>
    ELSE IF cp < 2048 THEN <<192 + (cp \div 64), 128 + (cp % 64)>>
    ELSE <<224 + (cp \div 4096), 128 + ((cp \div 64) % 64), 128 + (cp % 64)>>

RECURSIVE PercentBytes(_)
PercentBytes(bytes) ==
    IF bytes = << >> THEN << >>
    ELSE PercentByte(Head(bytes)) \o PercentBytes(Tail(bytes))

\* variant: no character is escaped
encodeChar_Raw(c) == <<c>>

\* what encodeURIComponent writes for one character
encodeChar(c) == IF c \in Unreserved THEN <<c>> ELSE PercentBytes(Utf8(CodePoint[c]))

RECURSIVE encodeChars(_)
encodeChars(text) ==
    IF text = << >> THEN << >>
    ELSE encodeChar(Head(text)) \o encodeChars(Tail(text))

\* encodeURIComponent(text): throws URIError on a lone surrogate
encodeURIComponent(text) ==
    IF \E i \in 1..Len(text) : text[i] = LoneSurrogate
    THEN [threw |-> TRUE, value |-> << >>]
    ELSE [threw |-> FALSE, value |-> encodeChars(text)]

\* ------------------------------------------------------ generateImage
\* Math.random() gives n / RandomUnits for some n in 0..RandomUnits-1
RandomUnits == 2000
\* the values of n drawn in the model
MathRandom == {0, 1, RandomUnits - 1}
\* Math.random() * 1000000
SeedRange == 1000000

\* Math.floor(Math.random() * 1000000)
seedOf(n) == (n * SeedRange) \div RandomUnits

DecimalDigits == <<"0", "1", "2", "3", "4", "5", "6", "7", "8", "9">>

\* `${n}` for an integer n >= 0
RECURSIVE NumberToString(_)
NumberToString(n) ==
    IF n < 10 THEN <<DecimalDigits[n + 1]>>
    ELSE NumberToString(n \div 10) \o <<DecimalDigits[(n % 10) + 1]>>

\* const width = 512; const height = 512
width == 512
height == 512

UrlBase == <<
    "h", "t", "t", "p", "s", ":", "/", "/", "i", "m", "a", "g", "e", ".", "p", "o",
    "l", "l", "i", "n", "a", "t", "i", "o", "n", "s", ".", "a", "i", "/", "p", "r",
    "o", "m", "p", "t", "/" >>
UrlWidth == <<
    "?", "w", "i", "d", "t", "h", "=" >>
UrlHeight == <<
    "&", "h", "e", "i", "g", "h", "t", "=" >>
UrlSeed == <<
    "&", "s", "e", "e", "d", "=" >>
UrlTail == <<
    "&", "n", "o", "l", "o", "g", "o", "=", "t", "r", "u", "e", "&", "m", "o", "d",
    "e", "l", "=", "f", "l", "u", "x" >>

\* the template literal of imageUrl
imageUrl(encodedPrompt, seed) ==
    UrlBase \o encodedPrompt \o UrlWidth \o NumberToString(width)
            \o UrlHeight \o NumberToString(height)
            \o UrlSeed \o NumberToString(seed) \o UrlTail

\* the rejection of the promise of generateImage
Rejected == [rejected |-> TRUE, images |-> << >>, imageUrl |-> << >>,
             metadata |-> [generationTime |-> 0, model |-> "", seed |-> 0]]

\* variant: the sketch strength is sent with the request
generateImage_SendStrength(promptText, sketch, callParams, random) ==
    LET seed          == seedOf(random)
        encodedPrompt == encodeURIComponent(enhancePrompt(promptText, callParams.style))
        url           == imageUrl(encodedPrompt.value, seed)
                             \o <<"&", "s", "=">> \o NumberToString(callParams.sketchStrength)
    IN  IF encodedPrompt.threw THEN Rejected
        ELSE [rejected |-> FALSE, images |-> <<url>>, imageUrl |-> url,
              metadata |-> [generationTime |-> 1000, model |-> "pollinations-flux",
                            seed |-> seed]]

\* generateImage(prompt, sketch, params) when Math.random() gives random
generateImage(promptText, sketch, callParams, random) ==
    LET seed          == seedOf(random)
        encodedPrompt == encodeURIComponent(enhancePrompt(promptText, callParams.style))
        url           == imageUrl(encodedPrompt.value, seed)
    IN  IF encodedPrompt.threw THEN Rejected
        ELSE [rejected |-> FALSE, images |-> <<url>>, imageUrl |-> url,
              metadata |-> [generationTime |-> 1000, model |-> "pollinations-flux",
                            seed |-> seed]]

\* --------------------------------------------------------------------
\* generateImage as a function of its arguments and of Math.random()
\* --------------------------------------------------------------------

\* the characters of the prompts given to generateImage
PromptChars == {"a", "%", "?", EAcute, LoneSurrogate}

\* the prompts given to generateImage
ServicePrompts == UNION {[1..n -> PromptChars] : n \in 0..MaxPromptLen}

\* the style values given to generateImage: the declared ones, a name that
\* is no style, the empty string, and a name every object inherits
ServiceStyles == StylePreset \cup {"pixel-art", "", "__proto__"}

\* canvas.toDataURL() of a drawing
SketchDataUrl == <<"d", "a", "t", "a", ":", "i", "m", "a", "g", "e", "/", "p", "n", "g">>

\* the sketch and the parameters other than the style given to generateImage
ServiceRest ==
    { [sketch |-> << >>, sketchStrength |-> 70, variations |-> 1, resolution |-> "none"],
      [sketch |-> SketchDataUrl, sketchStrength |-> 100, variations |-> 4,
       resolution |-> "1024x1024"] }

\* one call of generateImage, recorded with its arguments
Call(promptText, style, rest, random) ==
    LET callParams == [sketchStrength |-> rest.sketchStrength, style |-> style,
                       variations |-> rest.variations, resolution |-> rest.resolution]
    IN  [made |-> TRUE, prompt |-> promptText, sketch |-> rest.sketch, params |-> callParams,
         random |-> random,
         enhanced |-> enhancePrompt(promptText, style),
         result |-> generateImage(promptText, rest.sketch, callParams, random)]

ServiceInit ==
    /\ CanvasInit
    /\ PromptIdle
    /\ RestIdle
    /\ lsDraft = << >>
    /\ lsHistory = << >>

\* generateImage is called
callGenerateImage ==
    \E promptText \in ServicePrompts, style \in ServiceStyles,
       rest \in ServiceRest, random \in MathRandom :
        /\ ~firstCall.made
        /\ firstCall' = Call(promptText, style, rest, random)
        /\ UNCHANGED secondCall
        /\ UNCHANGED notServiceVars

\* generateImage is called again with the same prompt and style
callGenerateImageAgain ==
    \E rest \in ServiceRest, random \in MathRandom :
        /\ firstCall.made
        /\ ~secondCall.made
        /\ secondCall' = Call(firstCall.prompt, firstCall.params.style, rest, random)
        /\ UNCHANGED firstCall
        /\ UNCHANGED notServiceVars

ServiceNext ==
    \/ callGenerateImage
    \/ callGenerateImageAgain

ServiceSpec == ServiceInit /\ [][ServiceNext]_vars

\* ====================================================================
\* ControlParameters and App: parameters, generation, result viewer
\* ====================================================================

\* React runs the effects of a render before it starts the next update:
\* no handler runs between a render and the effects of that render
effectsFlushed == ~paramsEffect /\ ~imageEffect

\* the values the controls of the panel are set to in the model
PanelStrengths == {0, 100}
PanelStyles == {"photorealistic", "anime", "fantasy"}
PanelVariations == {1, 2, 4}

\* variant: the other fields are reset to their defaults
withParam_FromDefaults(prev, key, value) == [DEFAULT_PARAMS EXCEPT ![key] = value]

\* prev => ({ ...prev, [key]: value })
withParam(prev, key, value) == [prev EXCEPT ![key] = value]

\* updateParam(key, value), from the slider, the select or a variations button
updateParam ==
    \E key \in {"sketchStrength", "style", "variations"} :
        \E value \in (IF key = "sketchStrength" THEN PanelStrengths
                      ELSE IF key = "style" THEN PanelStyles
                      ELSE PanelVariations) :
            /\ effectsFlushed
            /\ ~isGenerating
            /\ params' = withParam(params, key, value)
            /\ paramsEffect' = TRUE
            /\ lastPanel' = [op |-> "update", key |-> key,
                             number |-> IF key = "style" THEN 0 ELSE value,
                             name |-> IF key = "style" THEN value ELSE ""]
            /\ UNCHANGED appParams
            /\ UNCHANGED notPanelVars

\* resetToDefaults
resetToDefaults ==
    /\ effectsFlushed
    /\ ~isGenerating
    /\ params' = DEFAULT_PARAMS
    /\ paramsEffect' = TRUE
    /\ lastPanel' = [op |-> "reset", key |-> "", number |-> 0, name |-> ""]
    /\ UNCHANGED appParams
    /\ UNCHANGED notPanelVars

\* the effect "Sync params with parent whenever they change"; onParamsChange
\* is the setParams of App
syncParams ==
    /\ paramsEffect
    /\ paramsEffect' = FALSE
    /\ appParams' = params
    /\ lastPanel' = [op |-> "sync", key |-> "", number |-> 0, name |-> ""]
    /\ UNCHANGED params
    /\ UNCHANGED notPanelVars

\* fabricCanvas.toDataURL() when the canvas holds json
toDataURL(json) == SketchDataUrl \o <<";">> \o NumberToString(json)

\* variant: the Generate button is disabled by an empty prompt only
generateDisabled_PromptOnly == appPrompt = << >>

\* the Generate button: disabled={isGenerating || !prompt}
generateDisabled == isGenerating \/ appPrompt = << >>

\* the Regenerate button: not rendered in the empty view, and
\* disabled={isGenerating || !generatedImage}
regenerateDisabled == isGenerating \/ resultImage = << >>

\* what the result viewer shows
view == viewOf(isGenerating, resultImage)

\* originalSketch={lastSketch || undefined}: << >> or <<data url>>
originalSketch ==
    IF lastSketch = << >> \/ lastSketch[1] = << >> THEN << >> ELSE lastSketch

\* handleGenerate up to its await, started by the button named by
handleGenerate(by) ==
    /\ effectsFlushed
    /\ Len(calls) < MaxCalls
    /\ IF by = "generate" THEN ~generateDisabled ELSE ~regenerateDisabled
    /\ IF appPrompt = << >>
       THEN /\ lastApp' = [op |-> "return", by |-> by, view |-> view]
            /\ UNCHANGED <<isGenerating, lastSketch, calls, priorPane>>
       ELSE \E random \in MathRandom :
              LET sketchData == IF fabricCanvas THEN toDataURL(canvas) ELSE << >>
              IN  /\ isGenerating' = TRUE
                  /\ lastSketch' = <<sketchData>>
                  /\ calls' = Append(calls,
                                  generateImage(appPrompt, sketchData, appParams, random))
                  /\ lastApp' = [op |-> "start", by |-> by, view |-> view]
                  /\ priorPane' = [image |-> resultImage, sketch |-> originalSketch]
    /\ UNCHANGED resultImage
    /\ UNCHANGED viewerVars
    /\ UNCHANGED notGenerateVars

\* onClick of the Generate button
clickGenerate == handleGenerate("generate")

\* onClick of the Regenerate button
clickRegenerate == handleGenerate("regenerate")

\* variant: the image of the result is not taken over
settledImage_Null(response) == << >>

\* result.imageUrl || result.images[0], as the value of resultImage
settledImage(response) ==
    <<IF response.imageUrl # << >> THEN response.imageUrl ELSE response.images[1]>>

\* useEffect(..., [generatedImage]): after a render React runs the effect
\* when the dependency is not the value of the render before (Object.is)
dependencyChanged(before, after) == before # after

\* handleGenerate after its await: the promise of generateImage has settled
generateSettled ==
    /\ calls # << >>
    /\ calls' = Tail(calls)
    /\ IF Head(calls).rejected
       THEN /\ lastApp' = [op |-> "failed", by |-> "", view |-> view]
            /\ UNCHANGED resultImage
       ELSE /\ lastApp' = [op |-> "done", by |-> "", view |-> view]
            /\ resultImage' = settledImage(Head(calls))
    /\ isGenerating' = FALSE
    /\ imageEffect' = dependencyChanged(resultImage, resultImage')
    /\ priorPane' = NoPane
    /\ UNCHANGED <<lastSketch, rating>>
    /\ UNCHANGED notGenerateVars

\* the stars of the result viewer that are clicked in the model (of 1 to 5)
Stars == {1, 5}

\* onClick of a star: setRating(s); the stars are part of the controls bar,
\* which the empty view does not have
clickStar ==
    \E s \in Stars :
        /\ effectsFlushed
        /\ view # "empty"
        /\ rating' = s
        /\ UNCHANGED imageEffect
        /\ UNCHANGED notViewerVars

\* the effect "Reset state when new image arrives"
resetOnImage ==
    /\ imageEffect
    /\ imageEffect' = FALSE
    /\ rating' = IF resultImage # << >> THEN 0 ELSE rating
    /\ UNCHANGED notViewerVars

\* the values a change event of the textarea carries in the model
AppTexts == {<< >>, <<"a">>, <<LoneSurrogate>>}

\* onChange of the textarea with a short text
handleChangeShort == handleChangeTo(AppTexts)

\* --------------------------------------- an unparsable stored history
\* the page is opened with text that is not JSON under 'prompt_history'
CorruptInit ==
    /\ CanvasInit
    /\ PromptIdle
    /\ RestIdle
    /\ lsDraft \in InitialDrafts
    /\ lsHistory = <<NotJSON>>

CorruptNext ==
    \/ loadPrompt
    \/ handleChangeShort
    \/ saveDraft
    \/ handleClear
    \/ applyTemplate
    \/ pickRecent

CorruptSpec == CorruptInit /\ [][CorruptNext]_vars

\* ---------------------------------------------- the parameter panel
\* the page is opened with a saved draft, which is the prompt
PanelInit ==
    /\ CanvasInit
    /\ PromptIdle
    /\ RestIdle
    /\ lsDraft = <<Fill(1)>>
    /\ lsHistory = << >>

PanelNext ==
    \/ loadPrompt
    \/ updateParam
    \/ resetToDefaults
    \/ syncParams
    \/ clickGenerate
    \/ clickRegenerate
    \/ generateSettled
    \/ resetOnImage

PanelSpec == PanelInit /\ [][PanelNext]_vars

\* ------------------------------------------------------ generation
AppNext ==
    \/ InitCanvas
    \/ handlePathCreated
    \/ loadPrompt
    \/ handleChangeShort
    \/ handleClear
    \/ syncParams
    \/ clickGenerate
    \/ clickRegenerate
    \/ generateSettled
    \/ clickStar
    \/ resetOnImage

AppSpec == Init /\ [][AppNext]_vars

\* ====================================================================
\* Properties of the drawing history (DrawingCanvas)
\* ====================================================================

\* a step in which saveHistory stored a snapshot
PushStep == last'.op \in {"stroke", "clear"} /\ last'.acted

\* the last handler was a stroke or a clear that stored a snapshot
Pushed == last.op \in {"stroke", "clear"} /\ last.acted

\* C1: after initialisation and any sequence of pushes, undo and redo the
\* history holds at most 10 snapshots.
C1_AtMostTenSnapshots == Len(history) <= 10

\* a push that found the history full
C1_Witness == Pushed /\ last.len = 10 /\ Len(history) = 10

\* C2: once the canvas is initialised the cursor is a valid index:
\* 0 <= historyIndex < history.length.
C2_CursorInRange ==
    fabricCanvas => (0 <= historyIndex /\ historyIndex < Len(history))

\* a push at the last possible cursor, where the cap on the cursor matters
C2_Witness ==
    /\ fabricCanvas
    /\ Pushed
    /\ last.idx = 9
    /\ historyIndex = 9

\* C3: a push made while entries exist after the cursor (the situation after
\* one or more undos with no redo) keeps the entries 0..cursor unchanged,
\* discards every later entry and appends the new snapshot as the last entry,
\* which the cursor then designates.
C3_PushAfterUndoTruncates ==
    [][ (PushStep /\ fabricCanvas /\ historyIndex < Len(history) - 1) =>
            /\ history' = SubSeq(history, 1, historyIndex + 1) \o <<canvas'>>
            /\ historyIndex' = historyIndex + 1
      ]_vars

\* entries [a,b,c] at cursor 2, undo, push d: [a,b,d] at cursor 2
C3_Witness ==
    /\ last = [op |-> "stroke", acted |-> TRUE, idx |-> 1, len |-> 3]
    /\ history = <<Blank, Blank, 1>>
    /\ historyIndex = 2

\* C4: after every push the cursor is the index of the appended snapshot
\* (history.length - 1, at most 9); a push that finds 10 entries up to the
\* cursor drops exactly the oldest one and keeps the order of the others.
C4_PushAdvancesCursor ==
    [][ (PushStep /\ fabricCanvas) =>
            /\ historyIndex' = Len(history') - 1
            /\ historyIndex' <= 9
            /\ history'[Len(history')] = canvas'
            /\ (historyIndex + 1 >= 10 =>
                    history' = SubSeq(history, 2, 10) \o <<canvas'>>)
      ]_vars

\* a stroke pushed onto a full history whose oldest entry was the blank canvas
C4_Witness ==
    /\ Pushed
    /\ last.idx = 9
    /\ last.len = 10
    /\ historyIndex = 9
    /\ history[10] = canvas
    /\ canvas # Blank

\* C5: undo at cursor 0 and redo at the last index change nothing; otherwise
\* undo moves the cursor down by one and redo up by one, and each starts the
\* restore of the snapshot at the new cursor, which its completion puts on
\* the canvas.  Neither changes the entries.
C5_UndoRedoSteps ==
    [][ /\ (last'.op = "undo" /\ fabricCanvas) =>
              /\ history' = history
              /\ IF historyIndex <= 0
                 THEN UNCHANGED <<historyIndex, canvas, pending>>
                 ELSE /\ historyIndex' = historyIndex - 1
                      /\ pending' = Append(pending, history'[historyIndex' + 1])
                      /\ canvas' = canvas
        /\ (last'.op = "redo" /\ fabricCanvas) =>
              /\ history' = history
              /\ IF historyIndex >= Len(history) - 1
                 THEN UNCHANGED <<historyIndex, canvas, pending>>
                 ELSE /\ historyIndex' = historyIndex + 1
                      /\ pending' = Append(pending, history'[historyIndex' + 1])
                      /\ canvas' = canvas
        /\ (last'.op = "restored") =>
              /\ UNCHANGED <<history, historyIndex>>
              /\ \E i \in 1..Len(pending) :
                    canvas' = pending[i] /\ pending' = RemoveAt(pending, i)
      ]_vars

\* an undo and then a redo have each run and had their snapshot restored
C5_Witness ==
    /\ episode.stage = 4
    /\ last.op = "restored"
    /\ canvas = At(history, historyIndex)

\* C6: an undo directly followed by a redo (each restore completing) leaves
\* the cursor and the entries as before the undo and shows on the canvas the
\* snapshot that was visible before the undo.
C6_UndoRedoRoundTrip ==
    episode.stage = 4 =>
        /\ historyIndex = episode.idx
        /\ history = episode.hist
        /\ canvas = episode.shown

\* C7: while a restore started by undo or redo is in progress, saveHistory
\* neither appends an entry nor moves the cursor.
C7_NoSaveDuringRestore ==
    [][ (Len(pending) > 0 /\ last'.op \in {"stroke", "clear"}) =>
            UNCHANGED <<history, historyIndex>>
      ]_vars

\* C8: a failed restore leaves the entries as they were and the cursor a
\* valid index; the undo or redo that started it did not change the entries
\* and left the cursor valid as well.
C8_FailedRestoreKeepsRing ==
    [][ /\ (last'.op = "failed") =>
              /\ history' = history
              /\ 0 <= historyIndex'
              /\ historyIndex' < Len(history')
        /\ (last'.op \in {"undo", "redo"} /\ fabricCanvas) =>
              /\ history' = history
              /\ 0 <= historyIndex'
              /\ historyIndex' < Len(history')
      ]_vars

\* the restore of an undo or redo has failed and none other is in flight
C8_Witness ==
    /\ last.op = "failed"
    /\ pending = << >>
    /\ isHistoryProcessing
    /\ Len(history) >= 2

\* C9 as stated: the history is created with one entry, no operation reduces
\* the number of entries, and an entry leaves only when a push on a full
\* history evicts the oldest one.
C9_NeverShrinks ==
    [][ /\ (~fabricCanvas /\ fabricCanvas') => history' = <<Blank>>
        /\ fabricCanvas =>
              /\ Len(history') >= Len(history)
              /\ \/ history' = history
                 \/ history' = Append(history, canvas')
                 \/ Len(history) = 10 /\ history' = Append(Tail(history), canvas')
      ]_vars

\* C9 amended: the history is created with one entry; only a push changes
\* the entries; a push discards the entries after the cursor, evicts the
\* oldest entry when 10 entries remain up to the cursor, and appends.
C9_ShrinksOnlyByPush ==
    [][ /\ (~fabricCanvas /\ fabricCanvas') => history' = <<Blank>>
        /\ (fabricCanvas /\ ~PushStep) => history' = history
        /\ (fabricCanvas /\ PushStep) =>
              LET first == IF historyIndex + 1 >= 10 THEN 2 ELSE 1
              IN  /\ history' = Append(SubSeq(history, first, historyIndex + 1), canvas')
                  /\ Len(history') >= 2
      ]_vars

\* a push after two undos has left fewer entries than before
C9_Witness ==
    /\ Pushed
    /\ Len(history) < last.len

\* ====================================================================
\* Properties of the prompt store (TextPromptInput)
\* ====================================================================

\* C10: a change of the textarea whose text is longer than maxLength changes
\* nothing (prompt, value reported to the parent, pending draft timer and
\* persisted draft); a text of exactly maxLength characters is accepted.
C10_TooLongIsNoOp ==
    [][ lastPrompt'.op = "change" =>
            LET value == lastPrompt'.value
            IN  /\ Len(value) > 500 =>
                      UNCHANGED <<prompt, appPrompt, saveTimeout, timers, lsDraft>>
                /\ Len(value) = 500 =>
                      /\ prompt' = value
                      /\ appPrompt' = value
                      /\ [id |-> saveTimeout', value |-> value] \in timers'
      ]_vars

\* a text of 500 characters was accepted and a later one of 501 refused
C10_Witness ==
    /\ lastPrompt.op = "change"
    /\ Len(lastPrompt.value) = 501
    /\ Len(prompt) = 500
    /\ appPrompt = prompt
    /\ \E t \in timers : t.value = prompt

\* C11: at most one debounced draft save is pending at any time; an accepted
\* change cancels the pending save and leaves exactly one pending save, of
\* the new value; the write that follows a burst of accepted changes is a
\* single write, of the value of the last of them.
C11_SinglePendingSave ==
    /\ [](Cardinality(timers) <= 1)
    /\ [][ /\ (lastPrompt'.op = "change" /\ Len(lastPrompt'.value) <= 500) =>
                  timers' = {[id |-> saveTimeout', value |-> lastPrompt'.value]}
           /\ (lastPrompt'.op = "save") =>
                  /\ timers = {[id |-> saveTimeout, value |-> lastPrompt'.value]}
                  /\ timers' = {}
                  /\ lsDraft' = <<lastPrompt'.value>>
         ]_vars

\* an accepted change has replaced the pending save of another value
C11_Witness ==
    /\ lastPrompt.op = "change"
    /\ Len(lastPrompt.value) <= 500
    /\ \E t \in lastPrompt.was : t.value # lastPrompt.value
    /\ timers = {[id |-> saveTimeout, value |-> lastPrompt.value]}

\* C12: whenever clear runs, with or without a draft save pending, it
\* empties the prompt and removes the persisted draft, and the persisted
\* draft stays absent until the next accepted change.
C12_ClearRemovesDraft ==
    /\ [][ lastPrompt'.op = "clear" => (prompt' = << >> /\ lsDraft' = << >>) ]_vars
    /\ [](sinceClear => lsDraft = << >>)

\* C13: addToHistory of an empty or whitespace-only text changes neither the
\* recency list nor its persisted copy; otherwise the new list starts with
\* the text, holds it exactly once, keeps the other entries in their previous
\* relative order, has at most 10 entries and is what is persisted.  The same
\* text committed again directly afterwards changes nothing, and the list
\* stays free of duplicates with at most 10 entries.
C13_CommitToHistory ==
    /\ [][ lastPrompt'.op = "commit" =>
              LET text  == lastPrompt'.value
                  blank == \A i \in 1..Len(text) : text[i] = " "
                  old   == promptHistory
                  new   == promptHistory'
              IN  IF blank
                  THEN UNCHANGED <<promptHistory, lsHistory>>
                  ELSE /\ Len(new) >= 1
                       /\ Len(new) <= 10
                       /\ new[1] = text
                       /\ \A i \in 2..Len(new) :
                             /\ new[i] # text
                             /\ \E a \in 1..Len(old) : old[a] = new[i]
                       /\ \A i, j \in 2..Len(new) :
                             i < j => \E a, b \in 1..Len(old) :
                                         a < b /\ old[a] = new[i] /\ old[b] = new[j]
                       /\ lsHistory' = <<JSONstringify(new)>>
                       /\ (lastPrompt.op = "commit" /\ lastPrompt.value = text) =>
                             new = old
         ]_vars
    /\ [](/\ Len(promptHistory) <= 10
          /\ \A i, j \in 1..Len(promptHistory) :
                i # j => promptHistory[i] # promptHistory[j])

\* "c" committed on the full list a..j: moved to the front, nothing dropped
C13_Witness ==
    /\ lastPrompt.op = "commit"
    /\ lastPrompt.value = <<"c">>
    /\ promptHistory = <<(<<"c">>), (<<"a">>), (<<"b">>)>> \o SubSeq(Words(10), 4, 10)
    /\ lsHistory = <<JSONstringify(promptHistory)>>

\* C14: after any sequence of typing (accepted or refused), clear, template,
\* recent-prompt pick and loading of the saved draft, the prompt has at most
\* maxLength characters.
C14_PromptWithinMaxLength == Len(prompt) <= 500

\* the page was opened with a saved draft of exactly maxLength characters
C14_Witness ==
    /\ lastPrompt.op = "load"
    /\ Len(prompt) = 500

\* ====================================================================
\* Properties of the generation client (generation-service.ts)
\* ====================================================================

\* the position of the first occurrence of pat in s (0: none)
IndexOf(s, pat) ==
    LET hits == {i \in 1..(Len(s) - Len(pat) + 1) : SubSeq(s, i, i + Len(pat) - 1) = pat}
    IN  IF hits = {} THEN 0 ELSE CHOOSE i \in hits : \A j \in hits : i <= j

\* the longest prefix of s with no character of stops
TakeUntil(s, stops) ==
    LET ends == {i \in 1..Len(s) : s[i] \in stops}
    IN  IF ends = {} THEN s
        ELSE SubSeq(s, 1, (CHOOSE i \in ends : \A j \in ends : i <= j) - 1)

\* the parts of s between the separators sep
RECURSIVE Split(_, _)
Split(s, sep) ==
    LET part == TakeUntil(s, {sep})
    IN  IF Len(part) = Len(s) THEN <<s>>
        ELSE <<part>> \o Split(SubSeq(s, Len(part) + 2, Len(s)), sep)

PromptMarker == <<"/", "p", "r", "o", "m", "p", "t", "/">>

\* the path segment of url that follows /prompt/
PathSegment(url) ==
    LET at == IndexOf(url, PromptMarker)
    IN  IF at = 0 THEN <<"<none>">>
        ELSE TakeUntil(SubSeq(url, at + Len(PromptMarker), Len(url)), {"/", "?", "#"})

\* <<name, value>> of the part name=value of a query
QueryPair(part) ==
    LET name == TakeUntil(part, {"="})
    IN  <<name, SubSeq(part, Len(name) + 2, Len(part))>>

\* the query of url as a sequence of <<name, value>>
QueryPairs(url) ==
    LET at    == IndexOf(url, <<"?">>)
        query == IF at = 0 THEN << >> ELSE TakeUntil(SubSeq(url, at + 1, Len(url)), {"#"})
        parts == IF query = << >> THEN << >> ELSE Split(query, "&")
    IN  [i \in 1..Len(parts) |-> QueryPair(parts[i])]

\* the values that the query pairs give to name
ValuesOf(pairs, name) ==
    {pairs[i][2] : i \in {j \in 1..Len(pairs) : pairs[j][1] = name}}

\* the names in the query pairs
NamesOf(pairs) == {pairs[i][1] : i \in 1..Len(pairs)}

HexValue(c) == (CHOOSE i \in 1..16 : HexDigits[i] = c) - 1
IsHex(c) == \E i \in 1..16 : HexDigits[i] = c

\* the byte written as %XX at position i of s, or -1
ByteAt(s, i) ==
    IF i + 2 <= Len(s) /\ s[i] = "%" /\ IsHex(s[i + 1]) /\ IsHex(s[i + 2])
    THEN 16 * HexValue(s[i + 1]) + HexValue(s[i + 2])
    ELSE -1

\* the character with code point cp
CharOf(cp) ==
    IF \E c \in DOMAIN CodePoint : CodePoint[c] = cp
    THEN CHOOSE c \in DOMAIN CodePoint : CodePoint[c] = cp
    ELSE "<other>"

IsContinuation(byte) == byte >= 128 /\ byte < 192

\* the number of bytes of the UTF-8 sequence that the byte b1 starts (0: none)
Utf8Length(b1) ==
    IF b1 >= 0 /\ b1 < 128 THEN 1
    ELSE IF b1 >= 192 /\ b1 < 224 THEN 2
    ELSE IF b1 >= 224 /\ b1 < 240 THEN 3
    ELSE 0

\* percent-decoding (UTF-8) of s; "<URIError>" stands where s is malformed
PercentDecode(s) ==
    LET \* position i is inside the escape that starts one or two places before
        InEscape(i) == (i > 1 /\ s[i - 1] = "%") \/ (i > 2 /\ s[i - 2] = "%")
        \* the escape at i continues the sequence started by the escape 3k before
        Continues(i, k) ==
            /\ i - 3 * k >= 1
            /\ Utf8Length(ByteAt(s, i - 3 * k)) > k
            /\ \A m \in 1..k : IsContinuation(ByteAt(s, i - 3 * k + 3 * m))
        \* position i starts a character of the decoded text
        Starts(i) ==
            IF s[i] = "%" THEN ~Continues(i, 1) /\ ~Continues(i, 2)
            ELSE ~InEscape(i)
        Decoded(i) ==
            IF s[i] # "%" THEN s[i]
            ELSE LET b1 == ByteAt(s, i)
                     b2 == ByteAt(s, i + 3)
                     b3 == ByteAt(s, i + 6)
                 IN  IF Utf8Length(b1) = 1 THEN CharOf(b1)
                     ELSE IF Utf8Length(b1) = 2 /\ IsContinuation(b2)
                     THEN CharOf((b1 - 192) * 64 + (b2 - 128))
                     ELSE IF Utf8Length(b1) = 3 /\ IsContinuation(b2) /\ IsContinuation(b3)
                     THEN CharOf((b1 - 224) * 4096 + (b2 - 128) * 64 + (b3 - 128))
                     ELSE "<URIError>"
        starts == SelectSeq([i \in 1..Len(s) |-> i], Starts)
    IN  [k \in 1..Len(starts) |-> Decoded(starts[k])]

\* s is the decimal notation of an integer >= 0
IsDecimal(s) ==
    /\ s # << >>
    /\ \A i \in 1..Len(s) : \E k \in 1..10 : DecimalDigits[k] = s[i]
    /\ (Len(s) > 1 => s[1] # "0")

RECURSIVE ParseDecimal(_)
ParseDecimal(s) ==
    IF s = << >> THEN 0
    ELSE 10 * ParseDecimal(SubSeq(s, 1, Len(s) - 1))
             + (CHOOSE k \in 1..10 : DecimalDigits[k] = s[Len(s)]) - 1

\* C16: prompt augmentation is total: for each of the 8 declared styles the
\* augmented prompt is the prompt followed by the suffix of that style, and
\* for every other style value it is the prompt unchanged.
C16_AugmentationTotal ==
    firstCall.made =>
        /\ Cardinality(StylePreset) = 8
        /\ firstCall.params.style \in StylePreset =>
              /\ firstCall.enhanced = firstCall.prompt \o styleSuffixes[firstCall.params.style]
              /\ styleSuffixes[firstCall.params.style] # << >>
        /\ firstCall.params.style \notin StylePreset =>
              firstCall.enhanced = firstCall.prompt

\* C17: in the URL that generateImage returns, the path segment after
\* /prompt/ percent-decodes to the augmented prompt; the query carries
\* width=512, height=512, nologo=true, model=flux and a seed that is an
\* integer with 0 <= seed < 1000000; the metadata reports that same seed.
C17_RequestUrl ==
    (firstCall.made /\ ~firstCall.result.rejected) =>
        LET url   == firstCall.result.imageUrl
            pairs == QueryPairs(url)
            seeds == ValuesOf(pairs, <<"s", "e", "e", "d">>)
        IN  /\ PercentDecode(PathSegment(url)) = firstCall.enhanced
            /\ ValuesOf(pairs, <<"w", "i", "d", "t", "h">>) = {<<"5", "1", "2">>}
            /\ ValuesOf(pairs, <<"h", "e", "i", "g", "h", "t">>) = {<<"5", "1", "2">>}
            /\ ValuesOf(pairs, <<"n", "o", "l", "o", "g", "o">>) = {<<"t", "r", "u", "e">>}
            /\ ValuesOf(pairs, <<"m", "o", "d", "e", "l">>) = {<<"f", "l", "u", "x">>}
            /\ \E seedText \in seeds :
                  /\ seeds = {seedText}
                  /\ IsDecimal(seedText)
                  /\ ParseDecimal(seedText) >= 0
                  /\ ParseDecimal(seedText) < 1000000
                  /\ firstCall.result.metadata.seed = ParseDecimal(seedText)
            /\ firstCall.result.images = <<url>>

\* a prompt that needs escaping, with a declared style and the largest seed drawn
C17_Witness ==
    /\ firstCall.made
    /\ ~firstCall.result.rejected
    /\ firstCall.prompt \in {<<"%">>, <<"?">>, <<EAcute>>}
    /\ firstCall.params.style = "anime"
    /\ firstCall.result.metadata.seed > 99999

\* what a result says apart from the seed
WithoutSeed(result) ==
    IF result.rejected THEN [rejected |-> TRUE]
    ELSE LET pairs == QueryPairs(result.imageUrl)
         IN  [rejected |-> FALSE,
              upToQuery |-> TakeUntil(result.imageUrl, {"?"}),
              query |-> {pairs[i] : i \in {j \in 1..Len(pairs) :
                                              pairs[j][1] # <<"s", "e", "e", "d">>}},
              images |-> Len(result.images),
              generationTime |-> result.metadata.generationTime,
              model |-> result.metadata.model]

\* C18: two calls of generateImage with the same prompt and style that draw
\* the same seed return the same URL and the same result, whatever the
\* sketch, the sketch strength, the variations and the resolution are; the
\* query names nothing but width, height, seed, nologo and model; and two
\* calls with the same prompt and style differ at most in the seed.
C18_RequestIgnoresSketch ==
    (firstCall.made /\ secondCall.made) =>
        /\ firstCall.random = secondCall.random => firstCall.result = secondCall.result
        /\ WithoutSeed(firstCall.result) = WithoutSeed(secondCall.result)
        /\ ~secondCall.result.rejected =>
              NamesOf(QueryPairs(secondCall.result.imageUrl))
                = {<<"w", "i", "d", "t", "h">>, <<"h", "e", "i", "g", "h", "t">>,
                   <<"s", "e", "e", "d">>, <<"n", "o", "l", "o", "g", "o">>,
                   <<"m", "o", "d", "e", "l">>}

\* two calls that drew the same seed with different sketches and parameters
C18_Witness ==
    /\ firstCall.made
    /\ secondCall.made
    /\ ~firstCall.result.rejected
    /\ firstCall.random = secondCall.random
    /\ firstCall.sketch # secondCall.sketch
    /\ firstCall.params.sketchStrength # secondCall.params.sketchStrength
    /\ firstCall.params.variations # secondCall.params.variations
    /\ firstCall.result.imageUrl = secondCall.result.imageUrl

\* ====================================================================
\* Properties of the parameter panel, the generation and the result viewer
\* ====================================================================

\* C15: updateParam(key, value) gives parameters equal to the previous ones
\* except that the field key has the value; the effect hands exactly these
\* parameters to the parent, whose copy therefore equals the parameters of
\* the panel whenever a generation is started.
C15_UpdateReplacesOneField ==
    /\ [][ lastPanel'.op = "update" =>
              LET key == lastPanel'.key
              IN  /\ DOMAIN params' = DOMAIN params
                  /\ \A f \in DOMAIN params \ {key} : params'[f] = params[f]
                  /\ IF key = "style" THEN params'.style = lastPanel'.name
                     ELSE params'[key] = lastPanel'.number
         ]_vars
    /\ [][ (paramsEffect /\ ~paramsEffect') => (appParams' = params /\ params' = params) ]_vars
    /\ [][ Len(calls') > Len(calls) => appParams = params ]_vars
    /\ [](~paramsEffect => appParams = params)

\* strength, style and variations were each updated, the parent was told,
\* and a generation was started with these parameters
C15_Witness ==
    /\ params = [sketchStrength |-> 0, style |-> "anime", variations |-> 4]
    /\ appParams = params
    /\ ~paramsEffect
    /\ Len(calls) = 1
    /\ lastApp.op = "start"

\* C19: at most one request of generateImage is in flight; from the start of
\* a generation until it has completed or failed both the Generate and the
\* Regenerate button are disabled and no generation is started, whatever the
\* order of clicks and completions.
C19_OneGenerationInFlight ==
    /\ [](Len(calls) <= 1)
    /\ [](calls # << >> => isGenerating)
    /\ [][ calls # << >> => Len(calls') <= Len(calls) ]_vars

\* a regeneration is in flight
C19_Witness ==
    /\ lastApp = [op |-> "start", by |-> "regenerate", view |-> "displaying"]
    /\ Len(calls) = 1
    /\ isGenerating
    /\ resultImage # << >>

\* C20 as stated: the result viewer changes only from empty to generating
\* when a request starts, from generating to displaying when the result
\* arrives, and from displaying to generating when a request starts again.
C20_ViewerTransitions ==
    [][ view' # view =>
            \/ view = "empty" /\ view' = "generating" /\ lastApp'.op = "start"
            \/ view = "generating" /\ view' = "displaying" /\ lastApp'.op = "done"
            \/ view = "displaying" /\ view' = "generating" /\ lastApp'.op = "start"
      ]_vars

\* C20 amended: as stated, and a request that fails takes the viewer from
\* generating back to what it showed before the request: empty when there
\* is no image, displaying (the earlier image) otherwise.
C20_ViewerTransitionsWithFailure ==
    [][ view' # view =>
            \/ view = "empty" /\ view' = "generating" /\ lastApp'.op = "start"
            \/ view = "generating" /\ view' = "displaying" /\ lastApp'.op = "done"
            \/ view = "displaying" /\ view' = "generating" /\ lastApp'.op = "start"
            \/ /\ view = "generating"
               /\ lastApp'.op = "failed"
               /\ resultImage' = resultImage
               /\ view' = IF resultImage = << >> THEN "empty" ELSE "displaying"
      ]_vars

\* the first request has failed: the viewer went from generating to empty
C20_Witness ==
    /\ lastApp = [op |-> "failed", by |-> "", view |-> "generating"]
    /\ view = "empty"

\* ====================================================================
\* The guard and the canvas once the restores have ended (DrawingCanvas)
\* ====================================================================

\* C24: every undo or redo that has set the guard clears it by the time it
\* has ended, whether its restore succeeded or failed: once no undo or redo
\* is in progress the guard is clear, and a stroke or clear completed then
\* is recorded in the history.
C24_GuardClearedAfterRestore ==
    /\ [](pending = << >> => ~isHistoryProcessing)
    /\ [][ (pending = << >> /\ last'.op \in {"stroke", "clear"}) => last'.acted ]_vars

\* C25: whenever no restore is in progress, the canvas holds the snapshot
\* at the cursor.
C25_CanvasIsSnapshotAtCursor ==
    (fabricCanvas /\ pending = << >>) => canvas = At(history, historyIndex)

\* ====================================================================
\* Properties of the result viewer (App, ResultDisplay)
\* ====================================================================

\* the step in which handleGenerate resumes after its await
Settled(op) == lastApp'.op = op /\ calls' # calls

\* C21: whenever a generation completes successfully and its image is handed
\* to the result viewer, the rating is reset to 0 whatever it was: the
\* delivery makes the reset effect run, and the effect sets the rating to 0.
C21_RatingResetOnDelivery ==
    [][ /\ Settled("done") => (imageEffect' \/ rating' = 0)
        /\ (imageEffect /\ ~imageEffect' /\ resultImage # << >>) => rating' = 0
      ]_vars

\* C22: a failed generation attempt ends with isGenerating false, and with
\* the image and the comparison sketch given to the viewer as they were
\* before the attempt.
C22_FailureLeavesPane ==
    [][ Settled("failed") =>
            /\ ~isGenerating'
            /\ resultImage' = priorPane.image
            /\ originalSketch' = priorPane.sketch
      ]_vars

\* ====================================================================
\* Properties of the stored prompt history (TextPromptInput)
\* ====================================================================

\* the step of the load effect
Loading == ~promptLoaded /\ promptLoaded'

\* C23: when the stored prompt history cannot be parsed, the load effect
\* leaves the recency list empty and still loads the saved draft, and from
\* then on the list is empty as long as the unparsable text is stored and
\* is what is stored once an operation has written the history.
C23_UnparsableHistoryIsAbsent ==
    /\ [](promptLoaded =>
            IF lsHistory = <<NotJSON>>
            THEN promptHistory = << >>
            ELSE lsHistory = <<JSONstringify(promptHistory)>>)
    /\ [][ (Loading /\ lsHistory = <<NotJSON>>) =>
              /\ promptHistory' = << >>
              /\ prompt' = (IF lsDraft = << >> THEN << >> ELSE lsDraft[1])
              /\ appPrompt' = prompt'
         ]_vars

\* the load effect has met an unparsable history and has loaded the draft
C23_Witness ==
    /\ lastPrompt.op = "load"
    /\ lsHistory = <<NotJSON>>
    /\ lsDraft # << >>
    /\ prompt = lsDraft[1]
    /\ promptHistory = << >>

====
